---- MODULE Spec2Model ----
(***************************************************************************)
(* Consensus core of nanlour/da: the TipManager (processNewBlock and       *)
(* checkFork), the ledger operations DoTxn / UNDoTxn, block verification,  *)
(* the block store, and the Miner's block production.                      *)
(***************************************************************************)
EXTENDS Integers, Sequences, FiniteSets, TLC

(***************************************************************************)
(* Bounds of the model.                                                    *)
(***************************************************************************)
\* depth of the tree of blocks that peers may hold (heights 1..MaxDepth)
MaxDepth == 3
\* number of undelivered blocks the environment keeps in each channel
MaxPending == 1
\* number of writes to the store that may fail in a run with a faulty store
MaxStoreFailures == 1

(***************************************************************************)
(* Configuration of the node (Config in blockchain.go).                    *)
(***************************************************************************)
\* the zero address [32]byte{} used by the genesis and the empty transaction
ZeroAddress == "zero"
\* the node's own address and two further addresses
Addresses == {ZeroAddress, "A", "X"}
\* NodeConfig.InitBank
InitBank == [a \in Addresses |-> IF a = "A" THEN 3 ELSE 0]
\* public keys: the node's key, a peer miner's key, the all-zero key of genesis
NodeKey == "pkA"
PeerKey == "pkP"
ZeroKey == "pk0"
\* the address of a key: the SHA-256 of the 64 bytes of the public key
AddressOf(key) ==
    IF key = NodeKey THEN "A" ELSE IF key = PeerKey THEN "X" ELSE ZeroAddress
\* the key of the holder of an address; the empty transaction of a peer's
\* block carries the peer's key
OwnerKey(address) == IF address = "A" THEN NodeKey ELSE PeerKey
\* NodeConfig.StakeMine, the stake the Miner computes its difficulty from
StakeMine == 1
\* NodeConfig.InitStake, the stake VerifyBlock looks up by the block's key
InitStake == [k \in {NodeKey, PeerKey} |-> 1]

(***************************************************************************)
(* Blocks and transactions (block.Block, block.Transaction).  Signatures   *)
(* and proofs are represented by the outcome of their verification against *)
(* the block that carries them.                                            *)
(***************************************************************************)
genesisTx ==
    [FromAddress |-> ZeroAddress, ToAddress |-> ZeroAddress, Amount |-> 0,
     Height |-> 0, Signature |-> "none", PublicKey |-> ZeroKey]

\* the 32-byte literal 'HELLO, DA' of the genesis block
HelloDA == <<"HELLO, DA">>
\* the all-zero hash
ZeroHash == <<>>
\* a hash under which no block exists ([32]byte{1, 2, 3} in TestInvalidBlock)
UnknownHash == <<"unknown">>

genesisBlock ==
    [PreHash |-> ZeroHash, Height |-> 0, EpochBeginHash |-> HelloDA,
     Txn |-> genesisTx, Signature |-> "literal", PublicKey |-> ZeroKey,
     Proof |-> "literal"]

\* Transaction.Hash: digest of the fields of the transaction; the amount
\* enters as uint64(Amount), its integer part. Amounts and balances are
\* counted in halves of a coin.
TxnHash(txn) ==
    <<txn.FromAddress, txn.ToAddress, txn.Amount \div 2, txn.Height,
      txn.Signature, txn.PublicKey>>

\* Block.Hash: SHA-256 over all fields, modelled as a collision-free digest
Hash(b) ==
    <<b.PreHash, b.Height, b.EpochBeginHash, TxnHash(b.Txn), b.Signature,
      b.PublicKey, b.Proof>>

\* Block.HashwithoutProof: the same digest without the proof
HashwithoutProof(b) ==
    <<b.PreHash, b.Height, b.EpochBeginHash, TxnHash(b.Txn), b.Signature,
      b.PublicKey>>

\* Transaction.Verify: the ECDSA signature verifies under the carried key
TxnVerify(txn) == txn.Signature = "valid"

\* ecdsa_da.BytesToPublicKey: the key bytes form a point of P-256
BytesToPublicKeyOk(pk) == pk # ZeroKey

\* VerifyBlock without the comparison of the transaction's height
VerifyBlockAnyTxnHeight(b) ==
    /\ BytesToPublicKeyOk(b.PublicKey)
    /\ b.EpochBeginHash = Hash(genesisBlock)
    /\ TxnVerify(b.Txn)
    /\ b.Signature = "valid"
    /\ b.Proof # "zero"
    /\ b.Proof = "vdf"

\* BlockChain.VerifyBlock
VerifyBlock(b) ==
    /\ BytesToPublicKeyOk(b.PublicKey)
    /\ b.EpochBeginHash = Hash(genesisBlock)
    /\ b.Txn.Height = b.Height
    /\ TxnVerify(b.Txn)
    /\ b.Signature = "valid"
    /\ b.Proof # "zero"
    /\ b.Proof = "vdf"

(***************************************************************************)
(* Ledger: DoTxn and UNDoTxn on the account balances of the store.         *)
(***************************************************************************)
\* a DoTxn that pays out whatever the sender holds
DoTxnOverdraws(bal, tx) ==
    IF tx.Amount = 0 \/ tx.FromAddress = tx.ToAddress THEN bal
    ELSE [bal EXCEPT ![tx.FromAddress] = bal[tx.FromAddress] - tx.Amount,
                     ![tx.ToAddress] = bal[tx.ToAddress] + tx.Amount]

\* BlockChain.DoTxn
DoTxn(bal, tx) ==
    IF tx.Amount = 0 \/ tx.FromAddress = tx.ToAddress THEN bal
    ELSE IF bal[tx.FromAddress] < tx.Amount THEN bal
    ELSE [bal EXCEPT ![tx.FromAddress] = bal[tx.FromAddress] - tx.Amount,
                     ![tx.ToAddress] = bal[tx.ToAddress] + tx.Amount]

\* an UNDoTxn that returns the funds without taking them from the receiver
UNDoTxnCreditsOnly(bal, tx) ==
    IF tx.Amount = 0 \/ tx.FromAddress = tx.ToAddress THEN bal
    ELSE IF bal[tx.FromAddress] < tx.Amount THEN bal
    ELSE [bal EXCEPT ![tx.FromAddress] = bal[tx.FromAddress] + tx.Amount]

\* BlockChain.UNDoTxn
UNDoTxn(bal, tx) ==
    IF tx.Amount = 0 \/ tx.FromAddress = tx.ToAddress THEN bal
    ELSE IF bal[tx.FromAddress] < tx.Amount THEN bal
    ELSE [bal EXCEPT ![tx.FromAddress] = bal[tx.FromAddress] + tx.Amount,
                     ![tx.ToAddress] = bal[tx.ToAddress] - tx.Amount]

(***************************************************************************)
(* The blocks that exist outside the node: a tree of blocks rooted at the  *)
(* genesis block, built by peers, plus blocks that do not descend from it. *)
(***************************************************************************)
\* the transfers peers put into their blocks: from, to, amount
PeerTransfers == { <<"A", "X", 2>>, <<"X", "A", 1>> }

\* the ways in which a block can fail VerifyBlock
Defects ==
    {"pubkey", "epoch", "txnheight", "txnsig", "blocksig", "zeroproof", "badvdf"}

\* a transaction for a slot, signed by the holder of the sending address:
\* Transaction.Sign stores the signature and the signer's public key
SignedTxn(from, to, amount, height) ==
    [FromAddress |-> from, ToAddress |-> to, Amount |-> amount,
     Height |-> height, Signature |-> "valid", PublicKey |-> OwnerKey(from)]

\* a block of a peer that passes VerifyBlock: parent hash, height, transfer
PeerBlock(prev, height, t) ==
    [PreHash |-> prev, Height |-> height,
     EpochBeginHash |-> Hash(genesisBlock),
     Txn |-> SignedTxn(t[1], t[2], t[3], height),
     Signature |-> "valid", PublicKey |-> PeerKey, Proof |-> "vdf"]

\* a block that fails exactly one check of VerifyBlock
DefectiveBlock(prev, height, d) ==
    LET b == PeerBlock(prev, height, <<ZeroAddress, ZeroAddress, 0>>)
    IN  CASE d = "pubkey"    -> [b EXCEPT !.PublicKey = ZeroKey]
          [] d = "epoch"     -> [b EXCEPT !.EpochBeginHash = HelloDA]
          [] d = "txnheight" -> [b EXCEPT !.Txn.Height = height + 1]
          [] d = "txnsig"    -> [b EXCEPT !.Txn.Signature = "invalid"]
          [] d = "blocksig"  -> [b EXCEPT !.Signature = "invalid"]
          [] d = "zeroproof" -> [b EXCEPT !.Proof = "zero"]
          [] d = "badvdf"    -> [b EXCEPT !.Proof = "junk"]

\* the blocks at depth d of the tree below the genesis block, each one
\* height above its parent
RECURSIVE TreeLevel(_)
TreeLevel(d) ==
    IF d = 0 THEN {genesisBlock}
    ELSE {PeerBlock(Hash(p), p.Height + 1, t) :
            p \in TreeLevel(d - 1), t \in PeerTransfers}

TreeBlocks == UNION {TreeLevel(d) : d \in 1..MaxDepth}

\* blocks that pass VerifyBlock and are two heights above their parent
SkipBlocks ==
    {PeerBlock(Hash(p), p.Height + 2, <<ZeroAddress, ZeroAddress, 0>>) :
        p \in TreeLevel(0) \cup TreeLevel(1)}

\* blocks on top of the genesis block that fail VerifyBlock
DefectiveBlocks == {DefectiveBlock(Hash(genesisBlock), 1, d) : d \in Defects}

\* a block of height 0 that passes VerifyBlock and has no known parent
AltRoot == PeerBlock(UnknownHash, 0, <<ZeroAddress, ZeroAddress, 0>>)

\* a block that passes VerifyBlock and has the height of its parent
FlatBlock == PeerBlock(Hash(genesisBlock), 0, <<ZeroAddress, ZeroAddress, 0>>)

\* blocks that do not descend from the genesis block
OrphanBlocks ==
    { AltRoot,
      PeerBlock(Hash(AltRoot), 1, <<"A", "X", 2>>),
      PeerBlock(UnknownHash, 2, <<"A", "X", 2>>) }

\* a peer's chain that passes VerifyBlock block by block: a block two heights
\* above genesis, a block of the same height on top of it, and one above
SkipG == PeerBlock(Hash(genesisBlock), 2, <<ZeroAddress, ZeroAddress, 0>>)
FlatOnSkip == PeerBlock(Hash(SkipG), 2, <<"A", "X", 2>>)
AboveFlat == PeerBlock(Hash(FlatOnSkip), 3, <<"X", "A", 1>>)
StackedBlocks == {SkipG, FlatOnSkip, AboveFlat}

\* a peer's blocks of which two differ in the fraction of the amount only:
\* a block on genesis, on top of it the two and a third block, and a block
\* above the third
TwinRoot == PeerBlock(Hash(genesisBlock), 1, <<ZeroAddress, ZeroAddress, 0>>)
TwinA == PeerBlock(Hash(TwinRoot), 2, <<"A", "X", 2>>)
TwinB == PeerBlock(Hash(TwinRoot), 2, <<"A", "X", 3>>)
TwinOther == PeerBlock(Hash(TwinRoot), 2, <<"X", "A", 1>>)
AboveOther == PeerBlock(Hash(TwinOther), 3, <<ZeroAddress, ZeroAddress, 0>>)

\* a peer's blocks whose transactions spend from the node's address and are
\* signed with the peer's key: one on genesis, one on top of it
ForgedBlock ==
    [PeerBlock(Hash(genesisBlock), 1, <<"A", "X", 2>>)
        EXCEPT !.Txn.PublicKey = PeerKey]
ForgedChild ==
    [PeerBlock(Hash(ForgedBlock), 2, <<"A", "X", 1>>)
        EXCEPT !.Txn.PublicKey = PeerKey]

\* every block a peer may gossip or serve
Universe ==
    TreeBlocks \cup SkipBlocks \cup {FlatBlock} \cup DefectiveBlocks \cup OrphanBlocks

(***************************************************************************)
(* State of the node.                                                      *)
(***************************************************************************)
VARIABLES
    MyChain,         \* bc.MyChain: sequence of Chain{Hash, PrvHash}, genesis first
    hashBlock,       \* store, prefix 0x02: block hash -> block
    tipHash,         \* store, key 0x03: hash of the tip
    accountBalance,  \* store, prefix 0x01: address -> balance
    P2PChan,         \* bc.P2PChan: blocks received from peers, with their sender
    MiningChan,      \* bc.MiningChan: blocks mined locally
    mining,          \* the Miner's iteration: candidate block, VDF and stop handle
    outcome,         \* the branch the processNewBlock that just returned took
    walk,            \* the ancestor walk of that processNewBlock
    broadcast,       \* block passed to BroadcastBlock by that processNewBlock
    steps,           \* the writes of that processNewBlock, in the order made
    crashed,         \* the process died of a runtime panic
    storeFailures,   \* writes to the store that may still fail in this run
    submitted,       \* the argument of the AddBlock, AddTxn or SendTxn that
                     \* just returned: a P2PBlock or a transaction
    fetch,           \* the idealFetch goroutine: its position and GetTip's result
    TxnPool,         \* bc.TxnPool.txnMap: height -> transaction
    net              \* a network of nodes: MyChain, block store, unprocessed
                     \* gossip and idealFetch goroutine of each

vars ==
    <<MyChain, hashBlock, tipHash, accountBalance, P2PChan, MiningChan, mining,
      outcome, walk, broadcast, steps, crashed, storeFailures, submitted,
      fetch, TxnPool, net>>

\* the state of the node followed in detail
nodeVars ==
    <<MyChain, hashBlock, tipHash, accountBalance, P2PChan, MiningChan, mining,
      outcome, walk, broadcast, steps, crashed, storeFailures, submitted,
      fetch, TxnPool>>

chainState == <<MyChain, hashBlock, tipHash, accountBalance>>

NoBlock == [Height |-> -1]

\* the Miner is between two iterations of its loop
NotMining == [vdf |-> "off"]

\* no idealFetch goroutine was started
NoFetch == [pc |-> "none"]

\* no ancestor was fetched
NoWalk == [end |-> "none", fetches |-> 0, height |-> 0, newchain |-> <<>>]

\* capacity of bc.P2PChan and of bc.MiningChan
P2PChanCap == 100
MiningChanCap == 10

\* the outcomes of one write to the store (true: written)
WriteOutcomes == IF storeFailures > 0 THEN {TRUE, FALSE} ELSE {TRUE}

\* number of failed writes among the outcomes
Failed(outcomes) == Cardinality({i \in DOMAIN outcomes : ~outcomes[i]})

\* DBManager.InsertHashBlock
InsertHashBlock(store, b) ==
    [h \in DOMAIN store \cup {Hash(b)} |-> IF h = Hash(b) THEN b ELSE store[h]]

\* the nodes of the network and the depth to which they mine
Nodes == {1, 2}
NetMaxDepth == 2

\* a node of the network after BlockChain.Init
NetInitNode ==
    [MyChain |-> <<[Hash |-> Hash(genesisBlock), PrvHash |-> ZeroHash]>>,
     hashBlock |-> InsertHashBlock(<<>>, genesisBlock),
     inbox |-> <<>>,
     probe |-> "none"]

\* BlockChain.Init up to the start of the Miner and the TipManager
InitChain ==
    /\ net = [n \in Nodes |-> NetInitNode]
    /\ MyChain = <<[Hash |-> Hash(genesisBlock), PrvHash |-> ZeroHash]>>
    /\ accountBalance = InitBank
    /\ tipHash = Hash(genesisBlock)
    /\ hashBlock = InsertHashBlock(<<>>, genesisBlock)
    /\ P2PChan = <<>>
    /\ MiningChan = <<>>
    /\ mining = NotMining
    /\ outcome = "none"
    /\ walk = NoWalk
    /\ broadcast = NoBlock
    /\ steps = <<>>
    /\ crashed = FALSE
    /\ submitted = NoBlock
    /\ fetch = NoFetch
    /\ TxnPool = <<>>

Init == InitChain /\ storeFailures = 0

InitStoreFail == InitChain /\ storeFailures = MaxStoreFailures

(***************************************************************************)
(* TipManager: processNewBlock and checkFork.                              *)
(***************************************************************************)
\* Service.GetBlockByHash: what the peer may answer to a request for a hash:
\* an error, a response without a block, the block of that hash, or another
\* block built on the same parent
PeerError == [Height |-> -2]
PeerNil == [Height |-> -3]
GetBlockByHash(hash) ==
    LET Served == Universe \cup StackedBlocks \cup {TwinA, TwinB, TwinOther}
                           \cup {genesisBlock}
    IN  {PeerError, PeerNil} \cup
        {b \in Served : \E a \in Served : Hash(a) = hash /\ b.PreHash = a.PreHash}

\* the entry pushed onto MyChain for a block
ChainEntry(b) == [Hash |-> Hash(b), PrvHash |-> b.PreHash]

\* block at Go index i of MyChain is MyChain[i + 1]
\* the test for the fork point in checkFork; height is the fetched block's
IsForkPoint(chain, block, height) ==
    /\ Len(chain) >= height
    /\ block.PreHash = chain[height].Hash

\* The backward walk of checkFork from the block at `height` of newchain:
\* the set of its possible ends, one for every sequence of peer answers.
RECURSIVE ForkWalk(_, _, _, _)
ForkWalk(chain, newchain, height, n) ==
    LET End(e, nc) ==
            [end |-> e, fetches |-> n + 1, height |-> height - 1, newchain |-> nc]
    IN  UNION { IF resp = PeerError
                  THEN {End("abort", newchain)}
                ELSE IF resp = PeerNil
                  THEN {End("panic", newchain)}
                ELSE IF resp.Height # height - 1
                  THEN {End("abort", newchain)}
                ELSE IF ~VerifyBlock(resp)
                  THEN {End("abort", newchain)}
                ELSE IF Len(chain) >= height - 1 /\ height - 1 = 0
                  THEN {End("panic", (height - 1 :> resp) @@ newchain)}
                ELSE IF IsForkPoint(chain, resp, height - 1)
                  THEN {End("join", (height - 1 :> resp) @@ newchain)}
                ELSE IF height - 1 <= 1
                  THEN {End("abort", (height - 1 :> resp) @@ newchain)}
                ELSE ForkWalk(chain, (height - 1 :> resp) @@ newchain,
                              height - 1, n + 1)
              : resp \in GetBlockByHash(newchain[height].PreHash) }

\* one write of processNewBlock: the call, and the height (for the rollback:
\* the Go index) of the block it is made for
Step(op, at) == [op |-> op, at |-> at]

\* the rollback loop of checkFork from Go index i: the balances it leaves,
\* and whether it ran to the end (it returns when an old block is missing)
RECURSIVE Rollback(_, _, _, _)
Rollback(chain, store, bal, i) ==
    IF i >= Len(chain) THEN [done |-> TRUE, bal |-> bal, steps |-> <<>>]
    ELSE IF chain[i + 1].Hash \notin DOMAIN store
      THEN [done |-> FALSE, bal |-> bal, steps |-> <<>>]
    ELSE LET rest == Rollback(chain, store,
                              UNDoTxn(bal, store[chain[i + 1].Hash].Txn), i + 1)
         IN  [rest EXCEPT !.steps = <<Step("UNDoTxn", i)>> \o @]

\* the loop of checkFork that adds newchain[i..top]; the insert of the block
\* at height failAt fails, which ends the loop
RECURSIVE Replay(_, _, _, _, _, _, _)
Replay(chain, store, bal, newchain, i, top, failAt) ==
    IF i > top
      THEN [done |-> TRUE, chain |-> chain, store |-> store, bal |-> bal,
            steps |-> <<>>]
    ELSE LET chain1 == Append(chain, ChainEntry(newchain[i]))
             bal1 == DoTxn(bal, newchain[i].Txn)
             made == <<Step("append", i), Step("DoTxn", i),
                       Step("InsertHashBlock", i)>>
         IN  IF i = failAt
               THEN [done |-> FALSE, chain |-> chain1, store |-> store,
                     bal |-> bal1, steps |-> made]
             ELSE LET rest == Replay(chain1, InsertHashBlock(store, newchain[i]),
                                     bal1, newchain, i + 1, top, failAt)
                  IN  [rest EXCEPT !.steps = made \o @]

\* processNewBlock returned without touching the chain state
Dropped(branch) ==
    /\ UNCHANGED <<chainState, crashed, storeFailures>>
    /\ outcome' = branch
    /\ steps' = <<>>
    /\ walk' = NoWalk
    /\ broadcast' = NoBlock

\* ExtendMainChain without the update of the tip key of the store
ExtendMainChainKeepsTip(newBlock) ==
    /\ accountBalance' = DoTxn(accountBalance, newBlock.Txn)
    /\ hashBlock' = InsertHashBlock(hashBlock, newBlock)
    /\ broadcast' = newBlock
    /\ MyChain' = Append(MyChain, ChainEntry(newBlock))
    /\ outcome' = "extends"
    /\ walk' = NoWalk
    /\ steps' = <<Step("DoTxn", newBlock.Height),
                  Step("InsertHashBlock", newBlock.Height),
                  Step("BroadcastBlock", newBlock.Height),
                  Step("append", newBlock.Height)>>
    /\ UNCHANGED <<tipHash, crashed, storeFailures>>

\* ExtendMainChain without the call of DoTxn
ExtendMainChainSkipsTxn(newBlock) ==
    /\ hashBlock' = InsertHashBlock(hashBlock, newBlock)
    /\ tipHash' = Hash(newBlock)
    /\ broadcast' = newBlock
    /\ MyChain' = Append(MyChain, ChainEntry(newBlock))
    /\ outcome' = "extends"
    /\ walk' = NoWalk
    /\ steps' = <<Step("InsertHashBlock", newBlock.Height),
                  Step("InsertTipHash", newBlock.Height),
                  Step("BroadcastBlock", newBlock.Height),
                  Step("append", newBlock.Height)>>
    /\ UNCHANGED <<accountBalance, crashed, storeFailures>>

\* the branch of processNewBlock for a block that builds on the tip
ExtendMainChain(newBlock) ==
    \E okBlock \in WriteOutcomes, okTip \in WriteOutcomes :
        /\ Failed(<<okBlock, okTip>>) <= storeFailures
        /\ storeFailures' = storeFailures - Failed(<<okBlock, okTip>>)
        /\ accountBalance' = DoTxn(accountBalance, newBlock.Txn)
        /\ hashBlock' = IF okBlock THEN InsertHashBlock(hashBlock, newBlock)
                        ELSE hashBlock
        /\ tipHash' = IF okTip THEN Hash(newBlock) ELSE tipHash
        /\ broadcast' = newBlock
        /\ MyChain' = Append(MyChain, ChainEntry(newBlock))
        /\ outcome' = "extends"
        /\ walk' = NoWalk
        /\ steps' = <<Step("DoTxn", newBlock.Height),
                      Step("InsertHashBlock", newBlock.Height),
                      Step("InsertTipHash", newBlock.Height),
                      Step("BroadcastBlock", newBlock.Height),
                      Step("append", newBlock.Height)>>
        /\ UNCHANGED crashed

\* Reorganize with MyChain cut one entry below the fork point
ReorganizeCutsLow(newBlock, newchain, height) ==
    LET back == Rollback(MyChain, hashBlock, accountBalance, height)
        redo == Replay(SubSeq(MyChain, 1, height - 1), hashBlock, back.bal,
                       newchain, height, newBlock.Height, newBlock.Height + 1)
    IN  /\ MyChain' = redo.chain
        /\ accountBalance' = redo.bal
        /\ hashBlock' = redo.store
        /\ tipHash' = Hash(newBlock)
        /\ steps' = back.steps \o redo.steps \o
                      <<Step("InsertTipHash", newBlock.Height)>>
        /\ UNCHANGED storeFailures

\* the reorganisation of checkFork once the fork point is found at `height`
Reorganize(newBlock, newchain, height) ==
    LET back == Rollback(MyChain, hashBlock, accountBalance, height)
    IN  IF ~back.done
          THEN /\ accountBalance' = back.bal
               /\ steps' = back.steps
               /\ UNCHANGED <<MyChain, hashBlock, tipHash, storeFailures>>
        ELSE \E failAt \in {newBlock.Height + 1} \cup
                            (IF storeFailures > 0 THEN height..newBlock.Height ELSE {}),
                okTip \in WriteOutcomes :
               LET redo == Replay(SubSeq(MyChain, 1, height), hashBlock, back.bal,
                                  newchain, height, newBlock.Height, failAt)
               IN  /\ MyChain' = redo.chain
                   /\ accountBalance' = redo.bal
                   /\ hashBlock' = redo.store
                   /\ tipHash' = IF redo.done /\ okTip THEN Hash(newBlock)
                                  ELSE tipHash
                   /\ steps' = back.steps \o redo.steps \o
                          (IF redo.done
                             THEN <<Step("InsertTipHash", newBlock.Height)>>
                           ELSE <<>>)
                   /\ storeFailures' =
                          IF redo.done /\ okTip THEN storeFailures
                          ELSE storeFailures - 1

\* checkFork that stores the incoming block before it walks its ancestors
checkForkStoresFirst(newBlock) ==
    \E w \in ForkWalk(MyChain, (newBlock.Height :> newBlock), newBlock.Height, 0) :
        /\ outcome' = "fork"
        /\ walk' = w
        /\ broadcast' = NoBlock
        /\ crashed' = (w.end = "panic")
        /\ IF w.end = "join"
             THEN Reorganize(newBlock, w.newchain, w.height)
             ELSE /\ hashBlock' = InsertHashBlock(hashBlock, newBlock)
                  /\ steps' = <<Step("InsertHashBlock", newBlock.Height)>>
                  /\ UNCHANGED <<MyChain, tipHash, accountBalance, storeFailures>>

\* BlockChain.checkFork
checkFork(newBlock) ==
    \E w \in ForkWalk(MyChain, (newBlock.Height :> newBlock), newBlock.Height, 0) :
        /\ outcome' = "fork"
        /\ walk' = w
        /\ broadcast' = NoBlock
        /\ crashed' = (w.end = "panic")
        /\ IF w.end = "join"
             THEN Reorganize(newBlock, w.newchain, w.height)
             ELSE steps' = <<>> /\ UNCHANGED <<chainState, storeFailures>>

\* processNewBlock without the call of VerifyBlock
processNewBlockUnverified(newBlock, isLocal) ==
    LET tip == MyChain[Len(MyChain)].Hash
    IN  IF tip \notin DOMAIN hashBlock THEN Dropped("no tip")
        ELSE IF newBlock.Height <= hashBlock[tip].Height THEN Dropped("too low")
        ELSE IF newBlock.PreHash = tip THEN ExtendMainChain(newBlock)
        ELSE IF isLocal THEN Dropped("stale")
        ELSE checkFork(newBlock)

\* processNewBlock with a height gate that lets equal heights pass
processNewBlockEqualHeight(newBlock, isLocal) ==
    LET tip == MyChain[Len(MyChain)].Hash
    IN  IF tip \notin DOMAIN hashBlock THEN Dropped("no tip")
        ELSE IF newBlock.Height < hashBlock[tip].Height THEN Dropped("too low")
        ELSE IF ~VerifyBlock(newBlock) THEN Dropped("invalid")
        ELSE IF newBlock.PreHash = tip THEN ExtendMainChain(newBlock)
        ELSE IF isLocal THEN Dropped("stale")
        ELSE checkFork(newBlock)

\* processNewBlock without the branch for local blocks
processNewBlockLocalFork(newBlock, isLocal) ==
    LET tip == MyChain[Len(MyChain)].Hash
    IN  IF tip \notin DOMAIN hashBlock THEN Dropped("no tip")
        ELSE IF newBlock.Height <= hashBlock[tip].Height THEN Dropped("too low")
        ELSE IF ~VerifyBlock(newBlock) THEN Dropped("invalid")
        ELSE IF newBlock.PreHash = tip THEN ExtendMainChain(newBlock)
        ELSE checkFork(newBlock)

\* BlockChain.processNewBlock
processNewBlock(newBlock, isLocal) ==
    LET tip == MyChain[Len(MyChain)].Hash
    IN  IF tip \notin DOMAIN hashBlock THEN Dropped("no tip")
        ELSE IF newBlock.Height <= hashBlock[tip].Height THEN Dropped("too low")
        ELSE IF ~VerifyBlock(newBlock) THEN Dropped("invalid")
        ELSE IF newBlock.PreHash = tip THEN ExtendMainChain(newBlock)
        ELSE IF isLocal THEN Dropped("stale")
        ELSE checkFork(newBlock)

\* TipManager, case block := <-bc.MiningChan
TipManagerMined ==
    /\ ~crashed
    /\ MiningChan # <<>>
    /\ MiningChan' = Tail(MiningChan)
    /\ processNewBlock(Head(MiningChan), TRUE)
    /\ submitted' = NoBlock
    /\ UNCHANGED <<P2PChan, mining, fetch, TxnPool, net>>

\* TipManager, case p2pblock := <-bc.P2PChan
TipManagerP2P ==
    /\ ~crashed
    /\ P2PChan # <<>>
    /\ P2PChan' = Tail(P2PChan)
    /\ processNewBlock(Head(P2PChan).Block, FALSE)
    /\ submitted' = NoBlock
    /\ UNCHANGED <<MiningChan, mining, fetch, TxnPool, net>>

\* an AddBlock that sends on P2PChan whatever the channel holds
SubmitUnbounded(b) ==
    /\ ~crashed
    /\ P2PChan' = Append(P2PChan, [Block |-> b, Sender |-> "peer"])
    /\ outcome' = "queued"
    /\ submitted' = [Block |-> b, Sender |-> "peer"]
    /\ walk' = NoWalk
    /\ broadcast' = NoBlock
    /\ steps' = <<>>
    /\ UNCHANGED net
    /\ UNCHANGED <<chainState, MiningChan, mining, crashed, storeFailures,
                   fetch, TxnPool>>

\* BlockChain.AddBlock(b): the select with a default case, which sends on
\* P2PChan when it has room and returns the error otherwise
Submit(b) ==
    /\ ~crashed
    /\ IF Len(P2PChan) < P2PChanCap
          THEN /\ P2PChan' = Append(P2PChan, [Block |-> b, Sender |-> "peer"])
               /\ outcome' = "queued"
          ELSE /\ P2PChan' = P2PChan
               /\ outcome' = "channel is full"
    /\ submitted' = [Block |-> b, Sender |-> "peer"]
    /\ walk' = NoWalk
    /\ broadcast' = NoBlock
    /\ steps' = <<>>
    /\ UNCHANGED net
    /\ UNCHANGED <<chainState, MiningChan, mining, crashed, storeFailures,
                   fetch, TxnPool>>

\* gossip: a peer submits any block, the TipManager keeping up with the
\* backlog
AddBlock ==
    /\ Len(P2PChan) < MaxPending
    /\ \E b \in Universe : Submit(b)

\* gossip of a peer in sync with the node: the block it mined on the node's tip
AddBlockOnTip ==
    /\ Len(P2PChan) < MaxPending
    /\ tipHash \in DOMAIN hashBlock
    /\ hashBlock[tipHash].Height < MaxDepth
    /\ Submit(PeerBlock(tipHash, hashBlock[tipHash].Height + 1,
                        <<"A", "X", 1>>))

\* gossip of a peer whose chain does not rise by one height per block, next
\* to the blocks at height 1
AddBlockStacked ==
    /\ Len(P2PChan) < MaxPending
    /\ \E b \in StackedBlocks \cup TreeLevel(1) : Submit(b)

\* the addresses NodeConfig.InitBank lists; the others start without an
\* entry in the store, which reads as a balance of 0
InitBankAccounts == {"A"}

\* the node is stopped while the balances outside InitBank are at most this
MaxCarried == 1

\* Stop, the end of the process, and Init on the store it left: MyChain is
\* the genesis entry, the pool and the channels are new, the balances of the
\* addresses of InitBank, the tip hash and the genesis block are written
\* over what the store holds
Restart ==
    /\ \A a \in Addresses \ InitBankAccounts : accountBalance[a] <= MaxCarried
    /\ MyChain' = <<[Hash |-> Hash(genesisBlock), PrvHash |-> ZeroHash]>>
    /\ TxnPool' = <<>>
    /\ P2PChan' = <<>>
    /\ MiningChan' = <<>>
    /\ accountBalance' =
          [a \in Addresses |-> IF a \in InitBankAccounts THEN InitBank[a]
                                                         ELSE accountBalance[a]]
    /\ tipHash' = Hash(genesisBlock)
    /\ hashBlock' = InsertHashBlock(hashBlock, genesisBlock)
    /\ mining' = NotMining
    /\ fetch' = NoFetch
    /\ crashed' = FALSE
    /\ outcome' = "booted"
    /\ submitted' = NoBlock
    /\ walk' = NoWalk
    /\ broadcast' = NoBlock
    /\ steps' = <<>>
    /\ UNCHANGED <<storeFailures, net>>

\* gossip of a peer that holds two blocks of one hash
AddBlockTwins ==
    /\ Len(P2PChan) < MaxPending
    /\ \E b \in {TwinRoot, TwinA, AboveOther} : Submit(b)

\* gossip of a peer that signs transfers from the node's address itself, next
\* to blocks with transfers of the holders
AddBlockForged ==
    /\ Len(P2PChan) < MaxPending
    /\ \E b \in {ForgedBlock, ForgedChild} \cup TreeLevel(1) : Submit(b)

\* the two blocks of a peer's chain above genesis
BurstB1 == PeerBlock(Hash(genesisBlock), 1, <<"A", "X", 1>>)
BurstB2 == PeerBlock(Hash(BurstB1), 2, <<"A", "X", 1>>)

\* gossip in a burst, however long the backlog: a peer announces its block at
\* height 1 to the empty channel and then its tip at height 2 over and over
AddBlockBurst ==
    \E b \in {BurstB1, BurstB2} :
        /\ b = BurstB1 <=> P2PChan = <<>>
        /\ Submit(b)

(***************************************************************************)
(* Miner: one iteration of the loop of mine(), with the tip-change         *)
(* detector and the VDF worker as separate steps.                          *)
(***************************************************************************)
\* selectTransaction with no entry in the pool for the height
emptyTxn(height) ==
    [SignedTxn(ZeroAddress, ZeroAddress, 0, height) EXCEPT !.PublicKey = NodeKey]

\* selectTransaction: the pool's entry for the height, else the empty one
selectTransaction(height) ==
    IF height \in DOMAIN TxnPool THEN TxnPool[height] ELSE emptyTxn(height)

\* a candidate whose transaction is selected for the height of the tip
CandidateTxnOfTip(tip, tipBlock) ==
    [PreHash |-> tip, Height |-> tipBlock.Height + 1,
     EpochBeginHash |-> Hash(genesisBlock),
     Txn |-> selectTransaction(tipBlock.Height),
     Signature |-> "valid", PublicKey |-> NodeKey, Proof |-> "zero"]

\* a candidate built on the genesis block whatever tip was read
CandidateOnGenesis(tip, tipBlock) ==
    [PreHash |-> Hash(genesisBlock), Height |-> 1,
     EpochBeginHash |-> Hash(genesisBlock), Txn |-> selectTransaction(1),
     Signature |-> "valid", PublicKey |-> NodeKey, Proof |-> "zero"]

\* the candidate block built from the tip read from the store
Candidate(tip, tipBlock) ==
    [PreHash |-> tip, Height |-> tipBlock.Height + 1,
     EpochBeginHash |-> Hash(genesisBlock),
     Txn |-> selectTransaction(tipBlock.Height + 1),
     Signature |-> "valid", PublicKey |-> NodeKey, Proof |-> "zero"]

\* mine(): read the tip, build and sign the candidate, start detector and VDF
MinerStart ==
    /\ ~crashed
    /\ mining = NotMining
    /\ tipHash \in DOMAIN hashBlock
    /\ hashBlock[tipHash].Height < MaxDepth
    /\ mining' = [vdf |-> "running", stopped |-> FALSE,
                  block |-> Candidate(tipHash, hashBlock[tipHash])]
    /\ outcome' = "none"
    /\ submitted' = NoBlock
    /\ walk' = NoWalk
    /\ broadcast' = NoBlock
    /\ steps' = <<>>
    /\ UNCHANGED net
    /\ UNCHANGED <<chainState, P2PChan, MiningChan, crashed, storeFailures,
                   fetch, TxnPool>>

\* the detector goroutine: the tip hash of the store differs, stopMining()
DetectTipChange ==
    /\ ~crashed
    /\ mining # NotMining
    /\ ~mining.stopped
    /\ tipHash # mining.block.PreHash
    /\ mining' = [mining EXCEPT !.stopped = TRUE]
    /\ outcome' = "none"
    /\ submitted' = NoBlock
    /\ walk' = NoWalk
    /\ broadcast' = NoBlock
    /\ steps' = <<>>
    /\ UNCHANGED net
    /\ UNCHANGED <<chainState, P2PChan, MiningChan, crashed, storeFailures,
                   fetch, TxnPool>>

\* VDF.Execute: the squarings end (proof computed) or observe the closed stop
\* channel (nil output, left all-zero); either way the output is offered
VDFExecute ==
    /\ ~crashed
    /\ mining # NotMining
    /\ mining.vdf = "running"
    /\ \/ mining' = [mining EXCEPT !.vdf = "proof"]
       \/ mining.stopped /\ mining' = [mining EXCEPT !.vdf = "zero"]
    /\ outcome' = "none"
    /\ submitted' = NoBlock
    /\ walk' = NoWalk
    /\ broadcast' = NoBlock
    /\ steps' = <<>>
    /\ UNCHANGED net
    /\ UNCHANGED <<chainState, P2PChan, MiningChan, crashed, storeFailures,
                   fetch, TxnPool>>

\* the output of a VDF run at a difficulty other than the verifier's
VDFOutputOtherStake(key) == "junk"

\* the output of a completed VDF run, computed at the difficulty of StakeMine
\* and verified at the difficulty of InitStake of the block's key
VDFOutput(key) == IF StakeMine = InitStake[key] THEN "vdf" ELSE "junk"

\* a Miner that writes the block it proved into the block store itself
MinerProofStores ==
    /\ ~crashed
    /\ mining # NotMining
    /\ mining.vdf \in {"proof", "zero"}
    /\ Len(MiningChan) < MiningChanCap
    /\ Len(MiningChan) < MaxPending
    /\ MiningChan' = Append(MiningChan,
           [mining.block EXCEPT
               !.Proof = IF mining.vdf = "proof" THEN VDFOutput(NodeKey)
                                                 ELSE "zero"])
    /\ hashBlock' = InsertHashBlock(hashBlock, MiningChan'[Len(MiningChan')])
    /\ mining' = NotMining
    /\ outcome' = "none"
    /\ submitted' = NoBlock
    /\ walk' = NoWalk
    /\ broadcast' = NoBlock
    /\ steps' = <<>>
    /\ UNCHANGED net
    /\ UNCHANGED <<MyChain, tipHash, accountBalance, P2PChan, crashed,
                   storeFailures, fetch, TxnPool>>

\* mine(), case proof := <-vdf.GetOutputChannel(): send the block
MinerProof ==
    /\ ~crashed
    /\ mining # NotMining
    /\ mining.vdf \in {"proof", "zero"}
    /\ Len(MiningChan) < MiningChanCap
    /\ Len(MiningChan) < MaxPending
    /\ MiningChan' = Append(MiningChan,
           [mining.block EXCEPT
               !.Proof = IF mining.vdf = "proof" THEN VDFOutput(NodeKey)
                                                 ELSE "zero"])
    /\ mining' = NotMining
    /\ outcome' = "none"
    /\ submitted' = NoBlock
    /\ walk' = NoWalk
    /\ broadcast' = NoBlock
    /\ steps' = <<>>
    /\ UNCHANGED net
    /\ UNCHANGED <<chainState, P2PChan, crashed, storeFailures,
                   fetch, TxnPool>>

\* mine(), case <-ctx.Done(): the iteration ends without a block
MinerCancelled ==
    /\ ~crashed
    /\ mining # NotMining
    /\ mining.stopped
    /\ mining' = NotMining
    /\ outcome' = "none"
    /\ submitted' = NoBlock
    /\ walk' = NoWalk
    /\ broadcast' = NoBlock
    /\ steps' = <<>>
    /\ UNCHANGED net
    /\ UNCHANGED <<chainState, P2PChan, MiningChan, crashed, storeFailures,
                   fetch, TxnPool>>

\* mine(): one whole iteration whose VDF completes before the detector
\* stops it: read the tip, build the candidate, run the VDF, send the block
MineBlock ==
    /\ ~crashed
    /\ mining = NotMining
    /\ tipHash \in DOMAIN hashBlock
    /\ hashBlock[tipHash].Height < MaxDepth
    /\ Len(MiningChan) < MiningChanCap
    /\ Len(MiningChan) < MaxPending
    /\ MiningChan' = Append(MiningChan,
           [Candidate(tipHash, hashBlock[tipHash]) EXCEPT
               !.Proof = VDFOutput(NodeKey)])
    /\ outcome' = "none"
    /\ submitted' = NoBlock
    /\ walk' = NoWalk
    /\ broadcast' = NoBlock
    /\ steps' = <<>>
    /\ UNCHANGED net
    /\ UNCHANGED <<chainState, P2PChan, mining, crashed, storeFailures,
                   fetch, TxnPool>>

(***************************************************************************)
(* The transaction pool.                                                   *)
(***************************************************************************)
\* the address of the node, NodeConfig.ID.Address
NodeAddress == "A"

\* a pool write under which an entry, once made, stays
AddTransactionKeepsFirst(pool, height, tx) ==
    [h \in DOMAIN pool \cup {height} |->
        IF h \in DOMAIN pool THEN pool[h] ELSE tx]

\* TransactionPool.AddTransaction
AddTransaction(pool, height, tx) ==
    [h \in DOMAIN pool \cup {height} |-> IF h = height THEN tx ELSE pool[h]]

\* the transactions peers gossip: signed transfers, and one whose signature
\* does not verify
GossipTxns ==
    {SignedTxn("X", "A", 1, h) : h \in 1..2}
        \cup {[SignedTxn("X", "A", 1, 1) EXCEPT !.Signature = "invalid"]}

\* BlockChain.AddTxn, called for every transaction message of a peer
AddTxn ==
    /\ ~crashed
    /\ \E t \in GossipTxns :
          /\ TxnPool' = AddTransaction(TxnPool, t.Height, t)
          /\ submitted' = t
    /\ outcome' = "none"
    /\ walk' = NoWalk
    /\ broadcast' = NoBlock
    /\ steps' = <<>>
    /\ UNCHANGED net
    /\ UNCHANGED <<chainState, P2PChan, MiningChan, mining, crashed,
                   storeFailures, fetch>>

\* BlockChain.SendTxn(dest, amount), called over RPC: a transfer of the node
\* for the height two above the tip; without a tip block, tip.Height panics
SendTxn ==
    /\ ~crashed
    /\ IF tipHash \in DOMAIN hashBlock
          THEN /\ hashBlock[tipHash].Height + 2 <= MaxDepth
               /\ \E amount \in 1..2 :
                    LET txn == SignedTxn(NodeAddress, "X", amount,
                                         hashBlock[tipHash].Height + 2)
                    IN  /\ TxnPool' = AddTransaction(TxnPool, txn.Height, txn)
                        /\ submitted' = txn
               /\ UNCHANGED crashed
          ELSE /\ crashed' = TRUE
               /\ UNCHANGED TxnPool
               /\ submitted' = NoBlock
    /\ outcome' = "none"
    /\ walk' = NoWalk
    /\ broadcast' = NoBlock
    /\ steps' = <<>>
    /\ UNCHANGED net
    /\ UNCHANGED <<chainState, P2PChan, MiningChan, mining, storeFailures,
                   fetch>>

(***************************************************************************)
(* The heartbeat of the TipManager and the idealFetch goroutine it starts. *)
(* One goroutine is followed from its start on.                            *)
(***************************************************************************)
\* TipManager, case <-time.After(5 * time.Second) with a connected peer:
\* neither channel had a block, go bc.idealFetch(selectedPeer)
Heartbeat ==
    /\ ~crashed
    /\ MiningChan = <<>>
    /\ P2PChan = <<>>
    /\ fetch = NoFetch
    /\ fetch' = [pc |-> "GetTip"]
    /\ outcome' = "none"
    /\ submitted' = NoBlock
    /\ walk' = NoWalk
    /\ broadcast' = NoBlock
    /\ steps' = <<>>
    /\ UNCHANGED net
    /\ UNCHANGED <<chainState, P2PChan, MiningChan, mining, crashed,
                   storeFailures, TxnPool>>

\* P2PNode.GetTip: an error, a response without a block, or the peer's tip
GetTip == {PeerError, PeerNil} \cup TreeBlocks

\* idealFetch: GetTip returns and the goroutine reaches the send on resultCh
FetchGetTip ==
    /\ fetch.pc = "GetTip"
    /\ \E r \in GetTip : fetch' = [pc |-> "send", result |-> r]
    /\ outcome' = "none"
    /\ submitted' = NoBlock
    /\ walk' = NoWalk
    /\ broadcast' = NoBlock
    /\ steps' = <<>>
    /\ UNCHANGED net
    /\ UNCHANGED <<chainState, P2PChan, MiningChan, mining, crashed,
                   storeFailures, TxnPool>>

\* the goroutines waiting to receive from resultCh: the channel is local to
\* idealFetch and unbuffered, and its only receive is in the select that
\* follows the send
resultChReceivers == IF fetch.pc = "select" THEN {"idealFetch"} ELSE {}

\* idealFetch: the send on resultCh, which completes with a receiver waiting
FetchSend ==
    /\ fetch.pc = "send"
    /\ resultChReceivers # {}
    /\ fetch' = [fetch EXCEPT !.pc = "select"]
    /\ outcome' = "none"
    /\ submitted' = NoBlock
    /\ walk' = NoWalk
    /\ broadcast' = NoBlock
    /\ steps' = <<>>
    /\ UNCHANGED net
    /\ UNCHANGED <<chainState, P2PChan, MiningChan, mining, crashed,
                   storeFailures, TxnPool>>

\* idealFetch: the select; the result is logged or its block sent on P2PChan,
\* or the 3 s context expires
FetchSelect ==
    /\ fetch.pc = "select"
    /\ \/ /\ fetch.result \in TreeBlocks
          /\ Len(P2PChan) < P2PChanCap
          /\ P2PChan' = Append(P2PChan,
                 [Block |-> fetch.result, Sender |-> "peer"])
       \/ UNCHANGED P2PChan
    /\ fetch' = [pc |-> "done"]
    /\ outcome' = "none"
    /\ submitted' = NoBlock
    /\ walk' = NoWalk
    /\ broadcast' = NoBlock
    /\ steps' = <<>>
    /\ UNCHANGED net
    /\ UNCHANGED <<chainState, MiningChan, mining, crashed, storeFailures,
                   TxnPool>>

(***************************************************************************)
(* A network of nodes that run the same code with the same stake table.    *)
(* Each node is taken with its chain and block store; its store never      *)
(* fails, its peers answer truthfully, and its Miner's iteration and the    *)
(* processing of the mined block are one step.                             *)
(***************************************************************************)
\* the key of a node; InitStake holds the same stake for each
NetKey(n) == IF n = 1 THEN NodeKey ELSE PeerKey

\* the tip of a node
NetTipHash(nd) == nd.MyChain[Len(nd.MyChain)].Hash

\* checkFork at its fork point h: MyChain is cut to its first h entries and
\* the blocks of newchain from h to top are appended and stored
NetReorganize(nd, newchain, h, top) ==
    LET added == {newchain[i] : i \in h..top}
    IN  [nd EXCEPT
           !.MyChain = SubSeq(nd.MyChain, 1, h)
                         \o [i \in 1..(top - h + 1) |->
                               ChainEntry(newchain[h + i - 1])],
           !.hashBlock = [k \in DOMAIN nd.hashBlock
                                  \cup {Hash(b) : b \in added} |->
                            IF k \in DOMAIN nd.hashBlock THEN nd.hashBlock[k]
                            ELSE CHOOSE b \in added : Hash(b) = k]]

\* checkFork: the ancestors of newchain[height] are asked of the sender, who
\* serves its block store, down to the fork point or to height 1
RECURSIVE NetCheckFork(_, _, _, _, _)
NetCheckFork(nd, newchain, height, top, served) ==
    LET asked == newchain[height].PreHash
        h     == height - 1
    IN  IF asked \notin DOMAIN served THEN nd
        ELSE LET block == served[asked]
                 nc    == [i \in DOMAIN newchain \cup {h} |->
                             IF i = h THEN block ELSE newchain[i]]
             IN  IF block.Height # h \/ ~VerifyBlock(block) THEN nd
                 ELSE IF IsForkPoint(nd.MyChain, block, h)
                        THEN NetReorganize(nd, nc, h, top)
                 ELSE IF h <= 1 THEN nd
                 ELSE NetCheckFork(nd, nc, h, top, served)

\* processNewBlock of a node: the node after it and whether the block was
\* passed to BroadcastBlock
NetProcessNewBlock(nd, newBlock, isLocal, served) ==
    LET tip == NetTipHash(nd)
    IN  IF newBlock.Height <= nd.hashBlock[tip].Height
          THEN [node |-> nd, broadcast |-> FALSE]
        ELSE IF ~VerifyBlock(newBlock)
          THEN [node |-> nd, broadcast |-> FALSE]
        ELSE IF newBlock.PreHash = tip
          THEN [node |->
                  [nd EXCEPT
                     !.MyChain = Append(nd.MyChain, ChainEntry(newBlock)),
                     !.hashBlock = InsertHashBlock(nd.hashBlock, newBlock)],
                broadcast |-> TRUE]
        ELSE IF isLocal
          THEN [node |-> nd, broadcast |-> FALSE]
        ELSE [node |-> NetCheckFork(nd,
                          [i \in {newBlock.Height} |-> newBlock],
                          newBlock.Height, newBlock.Height, served),
              broadcast |-> FALSE]

\* the network after node n processed a block: BroadcastBlock publishes it
\* to every other node, whose AddBlock queues it
NetAfter(n, r, b) ==
    [m \in Nodes |->
        IF m = n THEN r.node
        ELSE IF r.broadcast
               THEN [net[m] EXCEPT
                       !.inbox = Append(@, [Block |-> b, Sender |-> n])]
        ELSE net[m]]

\* mine() and the TipManager of node n: a block on the node's tip is mined
\* and processed
NetMine(n) ==
    LET tipBlock == net[n].hashBlock[NetTipHash(net[n])]
        b == [PreHash |-> NetTipHash(net[n]), Height |-> tipBlock.Height + 1,
              EpochBeginHash |-> Hash(genesisBlock),
              Txn |-> [emptyTxn(tipBlock.Height + 1)
                          EXCEPT !.PublicKey = NetKey(n)],
              Signature |-> "valid", PublicKey |-> NetKey(n),
              Proof |-> VDFOutput(NetKey(n))]
    IN  /\ tipBlock.Height < NetMaxDepth
        /\ net' = NetAfter(n, NetProcessNewBlock(net[n], b, TRUE, <<>>), b)
        /\ UNCHANGED nodeVars

\* the TipManager of node n processes the next block gossiped to it
NetReceive(n) ==
    /\ net[n].inbox # <<>>
    /\ LET msg == Head(net[n].inbox)
           nd  == [net[n] EXCEPT !.inbox = Tail(@)]
       IN  net' = NetAfter(n,
                     NetProcessNewBlock(nd, msg.Block, FALSE,
                                        net[msg.Sender].hashBlock),
                     msg.Block)
    /\ UNCHANGED nodeVars

\* the heartbeat of node n and its idealFetch: the goroutine calls GetTip
\* and stays at the send on resultCh
NetHeartbeat(n) ==
    /\ net[n].inbox = <<>>
    /\ net[n].probe = "none"
    /\ net' = [net EXCEPT ![n].probe = "send"]
    /\ UNCHANGED nodeVars

(***************************************************************************)
(* Specifications.  Next takes the Miner one iteration at a time;          *)
(* NextMiner takes it step by step.                                        *)
(***************************************************************************)
Next ==
    \/ TipManagerMined
    \/ TipManagerP2P
    \/ AddBlock
    \/ MineBlock

\* the node with its heartbeat.  FetchSend and FetchSelect are no disjuncts:
\* no state enables FetchSend, and FetchSelect follows it
NextFetch ==
    \/ TipManagerMined
    \/ TipManagerP2P
    \/ AddBlockOnTip
    \/ MineBlock
    \/ Heartbeat
    \/ FetchGetTip

\* the TipManager and the Miner with a peer whose chain skips heights
NextStacked ==
    \/ TipManagerMined
    \/ TipManagerP2P
    \/ AddBlockStacked
    \/ MineBlock

\* the node with its transaction pool in use
NextPool ==
    \/ TipManagerMined
    \/ TipManagerP2P
    \/ AddBlockStacked
    \/ MineBlock
    \/ AddTxn
    \/ SendTxn

\* a network of nodes
NextNet ==
    \/ \E n \in Nodes : NetMine(n)
    \/ \E n \in Nodes : NetReceive(n)
    \/ \E n \in Nodes : NetHeartbeat(n)

\* the TipManager and the Miner with a peer that holds two blocks of one hash
NextTwins ==
    \/ TipManagerMined
    \/ TipManagerP2P
    \/ AddBlockTwins
    \/ MineBlock

\* the TipManager and the Miner with a peer that signs transfers from the
\* node's address
NextForge ==
    \/ TipManagerMined
    \/ TipManagerP2P
    \/ AddBlockForged
    \/ MineBlock

\* the Miner step by step and the TipManager of a node without block gossip
\* whose peers gossip transactions
NextTxnGossip ==
    \/ TipManagerMined
    \/ AddTxn
    \/ MinerStart
    \/ DetectTipChange
    \/ VDFExecute
    \/ MinerProof
    \/ MinerCancelled

\* the TipManager and the Miner of a node that is stopped and booted again
NextRestart ==
    \/ TipManagerMined
    \/ TipManagerP2P
    \/ AddBlockOnTip
    \/ MineBlock
    \/ Restart

\* the TipManager under a burst of gossip
NextBurst ==
    \/ TipManagerP2P
    \/ AddBlockBurst

\* a node without peers: the Miner step by step and the TipManager
NextSolo ==
    \/ TipManagerMined
    \/ SendTxn
    \/ MinerStart
    \/ DetectTipChange
    \/ VDFExecute
    \/ MinerProof
    \/ MinerCancelled

NextMiner ==
    \/ TipManagerMined
    \/ TipManagerP2P
    \/ AddBlockOnTip
    \/ MinerStart
    \/ DetectTipChange
    \/ VDFExecute
    \/ MinerProof
    \/ MinerCancelled

\* the store never fails
Spec == Init /\ [][Next]_vars

\* up to MaxStoreFailures writes to the store fail
SpecStoreFail == InitStoreFail /\ [][Next]_vars

\* the store never fails; the Miner is taken step by step
SpecMiner == Init /\ [][NextMiner]_vars

\* the store never fails; a peer's chain skips heights
SpecStacked == Init /\ [][NextStacked]_vars

\* the store never fails; transactions arrive from peers and over RPC
SpecPool == Init /\ [][NextPool]_vars

\* a network of nodes with the same stake table
SpecNet == Init /\ [][NextNet]_vars

\* the store never fails; a peer holds two blocks of one hash
SpecTwins == Init /\ [][NextTwins]_vars

\* the store never fails; a peer signs transfers from the node's address
SpecForge == Init /\ [][NextForge]_vars

\* the store never fails; peers gossip transactions and no blocks; every
\* goroutine of the node is scheduled fairly
SpecTxnGossip ==
    /\ Init
    /\ [][NextTxnGossip]_vars
    /\ WF_vars(TipManagerMined)
    /\ WF_vars(MinerStart)
    /\ WF_vars(DetectTipChange)
    /\ WF_vars(VDFExecute)
    /\ WF_vars(MinerProof \/ MinerCancelled)

\* the store never fails; the node is stopped and booted again at any time
SpecRestart == Init /\ [][NextRestart]_vars

\* the store never fails; peers gossip in bursts
SpecBurst == Init /\ [][NextBurst]_vars

\* the Miner step by step with a peer in sync, all goroutines scheduled
\* fairly: the TipManager receives what is queued, the detector's ticker
\* fires, the VDF ends, the select of mine() takes a ready case and the loop
\* starts its next iteration
SpecMinerFair ==
    /\ Init
    /\ [][NextMiner]_vars
    /\ WF_vars(TipManagerMined)
    /\ WF_vars(TipManagerP2P)
    /\ WF_vars(MinerStart)
    /\ WF_vars(DetectTipChange)
    /\ WF_vars(VDFExecute)
    /\ WF_vars(MinerProof \/ MinerCancelled)

\* a node without peers whose goroutines are scheduled fairly: the TipManager
\* receives what is queued, the VDF ends, the select of mine() takes a ready
\* case and the loop starts its next iteration
SpecSolo ==
    /\ Init
    /\ [][NextSolo]_vars
    /\ WF_vars(TipManagerMined)
    /\ WF_vars(MinerStart)
    /\ WF_vars(DetectTipChange)
    /\ WF_vars(VDFExecute)
    /\ WF_vars(MinerProof \/ MinerCancelled)

\* every goroutine that can take a step eventually takes it: the TipManager
\* receives what is queued or times out, GetTip returns, and the send and the
\* select of idealFetch proceed whenever they can
SpecFetch ==
    /\ Init
    /\ [][NextFetch]_vars
    /\ WF_vars(TipManagerMined)
    /\ WF_vars(TipManagerP2P)
    /\ WF_vars(Heartbeat)
    /\ WF_vars(FetchGetTip)
    /\ WF_vars(FetchSend)
    /\ WF_vars(FetchSelect)

(***************************************************************************)
(* Properties.                                                             *)
(***************************************************************************)
\* hash of the current tip: the last entry of MyChain
Tip == MyChain[Len(MyChain)].Hash

\* height of the current tip block
TipHeight == hashBlock[Tip].Height

\* the step is processNewBlock on the block at the head of P2PChan
P2PStep == P2PChan # <<>> /\ P2PChan' = Tail(P2PChan)

\* the step is processNewBlock on the block at the head of MiningChan
MinedStep == MiningChan # <<>> /\ MiningChan' = Tail(MiningChan)

\* the balances obtained from InitBank by applying, in order, the
\* transaction of every block of chain after the genesis entry
RECURSIVE LedgerOf(_, _, _)
LedgerOf(chain, store, n) ==
    IF n <= 1 THEN InitBank
    ELSE DoTxn(LedgerOf(chain, store, n - 1), store[chain[n].Hash].Txn)

\* C1: in every reachable state MyChain[0] is the genesis entry and every
\* later entry's PrvHash is the Hash of the entry before it.
C1_ChainLinked ==
    /\ MyChain[1] = ChainEntry(genesisBlock)
    /\ \A i \in 2..Len(MyChain) : MyChain[i].PrvHash = MyChain[i - 1].Hash

\* C2: between two blocks processed by the TipManager, the length of
\* MyChain is the height of the tip block plus one.
C2_LengthIsTipHeightPlusOne ==
    Tip \in DOMAIN hashBlock => Len(MyChain) = TipHeight + 1

\* C3: after every reorganisation that was carried through, the balances are
\* those obtained from InitBank by applying the transactions of the new
\* MyChain in height order.
C3_ReorgBalancesAreReplay ==
    [][ (P2PStep /\ walk'.end = "join" /\ tipHash' = Hash(Head(P2PChan).Block))
         => accountBalance' = LedgerOf(MyChain', hashBlock', Len(MyChain')) ]_vars

\* the transfers a transaction can carry
Transfers ==
    {SignedTxn(from, to, amount, 1) :
        from \in Addresses, to \in Addresses, amount \in 0..InitBank["A"]}

\* C4: for every balance state and every transaction, DoTxn followed by
\* UNDoTxn of the same transaction gives every account its balance back.
C4_UndoRestoresBalances ==
    \A tx \in Transfers :
        UNDoTxn(DoTxn(accountBalance, tx), tx) = accountBalance

\* C5 as stated: every block referenced by MyChain passes VerifyBlock.
C5_EveryBlockVerifies ==
    \A i \in 1..Len(MyChain) :
        /\ MyChain[i].Hash \in DOMAIN hashBlock
        /\ VerifyBlock(hashBlock[MyChain[i].Hash])

\* C5: every block referenced by MyChain after the genesis entry passes
\* VerifyBlock (the genesis block itself does not).
C5_EveryLaterBlockVerifies ==
    /\ ~VerifyBlock(hashBlock[MyChain[1].Hash])
    /\ \A i \in 2..Len(MyChain) :
        /\ MyChain[i].Hash \in DOMAIN hashBlock
        /\ VerifyBlock(hashBlock[MyChain[i].Hash])

\* a chain of three blocks or more, built by a reorganisation, whose blocks
\* after the genesis block all come from peers
C5_Witness ==
    /\ Len(MyChain) >= 3
    /\ walk.end = "join"
    /\ \A i \in 2..Len(MyChain) : hashBlock[MyChain[i].Hash].PublicKey = PeerKey

\* the blocks of heights from..top of a candidate chain, as entries of MyChain
CandidateEntries(newchain, from, top) ==
    [i \in 1..(top - from + 1) |-> ChainEntry(newchain[from + i - 1])]

\* every block of the candidate chain above height `from` names the block
\* below it as its parent
Linked(newchain, from, top) ==
    \A i \in (from + 1)..top : newchain[i].PreHash = Hash(newchain[i - 1])

\* C6: when a valid peer block higher than the tip, not built on the tip,
\* arrives and the walk over the sender's ancestors finds the fork point,
\* then afterwards the tip is the incoming block and MyChain is the old
\* MyChain up to the last common block followed by the candidate chain.
C6_ReorgAdoptsCandidate ==
    [][ LET b == Head(P2PChan).Block
        IN  (/\ P2PStep
             /\ VerifyBlock(b) /\ b.Height > TipHeight /\ b.PreHash # Tip
             /\ walk'.end = "join")
             => /\ tipHash' = Hash(b)
                /\ MyChain'[Len(MyChain')].Hash = Hash(b)
                /\ MyChain' = SubSeq(MyChain, 1, walk'.height) \o
                      CandidateEntries(walk'.newchain, walk'.height, b.Height)
      ]_vars

\* a reorganisation over two fetched ancestors, served truthfully, that
\* left the two blocks it replaced in the store
C6_Witness ==
    /\ walk.end = "join"
    /\ Cardinality(DOMAIN hashBlock) = 6
    /\ walk.fetches = 2
    /\ walk.height = 1
    /\ Linked(walk.newchain, 1, 3)
    /\ Len(MyChain) = 4
    /\ tipHash = Hash(walk.newchain[3])

\* C7: processing a block whose height is at most the height of the tip,
\* from the Miner or from a peer, leaves MyChain, the tip, the balances and
\* the block store unchanged, fetches no ancestor and broadcasts nothing.
C7_HeightGate ==
    [][ (/\ Tip \in DOMAIN hashBlock
         /\ \/ P2PStep /\ Head(P2PChan).Block.Height <= TipHeight
            \/ MinedStep /\ Head(MiningChan).Height <= TipHeight)
         => /\ UNCHANGED chainState
            /\ walk' = NoWalk
            /\ broadcast' = NoBlock ]_vars

\* a block was dropped by the height gate on a chain that has grown
C7_Witness ==
    /\ outcome = "too low"
    /\ Len(MyChain) >= 2
    /\ TipHeight >= 1

\* MyChain is G -> B1, or G -> B1 -> B2 with B2 a valid child of B1
OnB1 ==
    /\ Len(MyChain) \in {2, 3}
    /\ \A i \in 2..Len(MyChain) :
          /\ MyChain[i].Hash \in DOMAIN hashBlock
          /\ hashBlock[MyChain[i].Hash].Height = i - 1
          /\ MyChain[i].PrvHash = MyChain[i - 1].Hash

\* b is a valid block of height 2 built on B1
CompetesOnB1(b) ==
    VerifyBlock(b) /\ b.Height = 2 /\ b.PreHash = MyChain[2].Hash

\* C8 as stated: with MyChain G -> B1, a valid block of height 2 built on B1
\* does not become the tip.
C8_CompetitorsLeaveTip ==
    [][ (P2PStep /\ OnB1 /\ Len(MyChain) = 2 /\ CompetesOnB1(Head(P2PChan).Block))
         => tipHash' = tipHash ]_vars

\* C8: with MyChain G -> B1, the first valid block of height 2 built on B1
\* becomes the tip; a competing one that arrives after it leaves the tip.
C8_FirstCompetitorWins ==
    [][ (P2PStep /\ OnB1 /\ CompetesOnB1(Head(P2PChan).Block))
         => IF Len(MyChain) = 2 THEN tipHash' = Hash(Head(P2PChan).Block)
            ELSE tipHash' = tipHash /\ UNCHANGED MyChain ]_vars

\* the first competitor is the tip and the second one is waiting
C8_Witness ==
    /\ OnB1
    /\ Len(MyChain) = 3
    /\ tipHash = Tip
    /\ P2PChan # <<>>
    /\ CompetesOnB1(Head(P2PChan).Block)
    /\ Hash(Head(P2PChan).Block) # Tip

\* what the straight extension by block b leaves behind
Extended(b) ==
    /\ tipHash' = Hash(b)
    /\ MyChain' = Append(MyChain, ChainEntry(b))
    /\ Hash(b) \in DOMAIN hashBlock'
    /\ hashBlock'[Hash(b)] = b
    /\ accountBalance' = DoTxn(accountBalance, b.Txn)
    /\ broadcast' = b

C10_StaleLocalBlockDropped ==
    [][ (MinedStep /\ Head(MiningChan).PreHash # Tip)
         => /\ UNCHANGED chainState
            /\ outcome' # "fork"
            /\ walk' = NoWalk
            /\ broadcast' = NoBlock ]_vars

\* a valid local block higher than the tip was dropped for not building on it
C10_Witness == outcome = "stale"

\* the step is processNewBlock on block b, from either channel
Processes(b) ==
    \/ P2PStep /\ b = Head(P2PChan).Block
    \/ MinedStep /\ b = Head(MiningChan)

\* b fails one of the checks of a block: epoch hash, transaction height,
\* transaction signature, block signature, all-zero proof, VDF proof
FailsACheck(b) ==
    \/ b.EpochBeginHash # Hash(genesisBlock)
    \/ b.Txn.Height # b.Height
    \/ b.Txn.Signature # "valid"
    \/ b.Signature # "valid"
    \/ b.Proof = "zero"
    \/ b.Proof # "vdf"

\* C11: a block higher than the tip that fails a check of VerifyBlock is
\* dropped: balances, block store, tip and MyChain stay as they were, nothing
\* is broadcast and no ancestor is fetched.
C11_InvalidBlockDropped ==
    [][ \A b \in Universe :
          (Processes(b) /\ Tip \in DOMAIN hashBlock /\ b.Height > TipHeight
             /\ FailsACheck(b))
          => /\ UNCHANGED chainState
             /\ broadcast' = NoBlock
             /\ walk' = NoWalk ]_vars

\* a block higher than the tip was dropped for failing VerifyBlock
C11_Witness ==
    /\ outcome = "invalid"
    /\ broadcast = NoBlock
    /\ walk = NoWalk

\* C12: when the walk over the ancestors ends without a fork point (failed
\* fetch, wrong height, failed verification, genesis height reached), MyChain,
\* the tip, the balances and the block store are as before the block was
\* processed: neither the block nor a fetched ancestor is stored.
C12_AbortedWalkLeavesState ==
    [][ (P2PStep /\ walk'.end = "abort")
         => /\ UNCHANGED chainState
            /\ broadcast' = NoBlock ]_vars

\* a walk that fetched and kept one ancestor and then ended without a fork
\* point, on a chain that has grown
C12_Witness ==
    /\ walk.end = "abort"
    /\ walk.fetches = 2
    /\ 2 \in DOMAIN walk.newchain
    /\ Hash(walk.newchain[2]) \notin DOMAIN hashBlock
    /\ Len(MyChain) >= 2

\* C13: when the write of the block fails during a straight extension, the
\* tip is not moved to the block, MyChain is not extended and the block is
\* not broadcast.
C13_FailedPutAborts ==
    [][ \A b \in Universe :
          (Processes(b) /\ outcome' = "extends" /\ Hash(b) \notin DOMAIN hashBlock')
          => /\ tipHash' # Hash(b)
             /\ MyChain' = MyChain
             /\ broadcast' = NoBlock ]_vars

\* C14: no block is broadcast that the local store does not hold.
C14_BroadcastIsStored ==
    broadcast # NoBlock => Hash(broadcast) \in DOMAIN hashBlock

\* the positions of steps at which `op` is made for the block at height `at`
StepsOf(op, at) == {k \in DOMAIN steps : steps[k] = Step(op, at)}

\* C15: every block that enters MyChain, by a straight extension or by the
\* redo of a reorganisation, is first written to the block store, then its
\* transaction is applied, then the tip is set, then it is pushed onto
\* MyChain.
C15_IngressOrder ==
    \A k \in DOMAIN steps :
        steps[k].op = "append" =>
            \E p \in StepsOf("InsertHashBlock", steps[k].at),
               d \in StepsOf("DoTxn", steps[k].at),
               t \in StepsOf("InsertTipHash", steps[k].at) :
                p < d /\ d < t /\ t < k

\* C16: once the detector has stopped the VDF of a candidate, the Miner places
\* no block on MiningChan for that candidate, whatever proof it would carry
C16_CancelledVDFSendsNothing ==
    [][ (mining # NotMining /\ mining.stopped)
          => Len(MiningChan') <= Len(MiningChan) ]_vars

\* C17: when the Miner reads the tip for an iteration, every block it sent
\* before has been processed by the TipManager, so MiningChan is empty
C17_ProcessedBeforeNextRead ==
    [][ (mining = NotMining /\ mining' # NotMining) => MiningChan = <<>> ]_vars

\* C18: a block the Miner sends after a VDF run that was not stopped passes
\* VerifyBlock, has the height of the tip read plus one, and carries a
\* transaction of its own height
C18_MinedBlockVerifies ==
    [][ (mining # NotMining /\ ~mining.stopped
         /\ Len(MiningChan') > Len(MiningChan))
          => LET b == MiningChan'[Len(MiningChan')]
             IN  /\ VerifyBlock(b)
                 /\ b.PreHash = mining.block.PreHash
                 /\ b.PreHash \in DOMAIN hashBlock
                 /\ b.Height = hashBlock[b.PreHash].Height + 1
                 /\ b.Txn.Height = b.Height ]_vars

\* C18 witness: a block mined on a tip above genesis waits on MiningChan
\* while its parent is still the tip, so no detector stopped its VDF
C18_Witness ==
    /\ MiningChan # <<>>
    /\ Head(MiningChan).PublicKey = NodeKey
    /\ Head(MiningChan).Height = 2
    /\ Head(MiningChan).Proof = "vdf"
    /\ Head(MiningChan).PreHash = tipHash
    /\ mining = NotMining

\* C19: every idealFetch goroutine a heartbeat starts comes to its end, by
\* sending one block on P2PChan or after logging a failure or the timeout
C19_FetchTaskTerminates == (fetch.pc = "GetTip") ~> (fetch.pc = "done")

\* C20: AddBlock can always be called and returns: with P2PChanCap blocks
\* waiting on P2PChan it returns the error and leaves the channel as it was,
\* otherwise it returns success and the channel is the old one with the
\* submitted block added at its tail
C20_SubmitNeverBlocks ==
    [][ /\ ENABLED AddBlockBurst
        /\ submitted' # NoBlock =>
              IF Len(P2PChan) >= P2PChanCap
                THEN outcome' = "channel is full" /\ P2PChan' = P2PChan
                ELSE outcome' = "queued"
                     /\ P2PChan' = Append(P2PChan, submitted') ]_vars

\* C20 witness: a block was refused by the full channel
C20_Witness ==
    /\ submitted # NoBlock
    /\ outcome = "channel is full"
    /\ Len(P2PChan) = P2PChanCap
    /\ P2PChan[P2PChanCap] = submitted

\* C21: a node without peers and with a consistent stake configuration
\* eventually has a tip of height 1 that passes VerifyBlock and carries a
\* transaction of height 1
C21_SoloMinesHeightOne ==
    <>(/\ Tip \in DOMAIN hashBlock
       /\ hashBlock[Tip].Height = 1
       /\ VerifyBlock(hashBlock[Tip])
       /\ hashBlock[Tip].Txn.Height = 1)

\* C21 witness: the node's own block at height 1 is the tip
C21_Witness ==
    /\ Len(MyChain) = 2
    /\ tipHash = MyChain[2].Hash
    /\ tipHash \in DOMAIN hashBlock
    /\ hashBlock[tipHash].PublicKey = NodeKey
    /\ hashBlock[tipHash].Height = 1
    /\ outcome = "extends"

\* the blocks of MyChain that the block store holds, by position
StoredAt == {i \in DOMAIN MyChain : MyChain[i].Hash \in DOMAIN hashBlock}

\* C26: no two blocks of MyChain have the same height
C26_OneBlockPerHeight ==
    \A i, j \in StoredAt :
        i # j => hashBlock[MyChain[i].Hash].Height
                   # hashBlock[MyChain[j].Hash].Height

\* the argument of the call that just returned is a transaction
IsTxn(x) == "FromAddress" \in DOMAIN x

\* the pool's entry for height h is not what it was
PoolChangedAt(h) ==
    \/ (h \in DOMAIN TxnPool') # (h \in DOMAIN TxnPool)
    \/ h \in DOMAIN TxnPool /\ h \in DOMAIN TxnPool'
          /\ TxnPool'[h] # TxnPool[h]

\* C28: the pool's entry for a height changes only in a step that submits a
\* transaction of that height, and then it is the submitted transaction,
\* whatever the entry was; no other step (selecting a transaction, mining,
\* processing a block, reorganising) removes or alters an entry
C28_PoolChangesOnlyOnSubmit ==
    [][ /\ \A h \in DOMAIN TxnPool \cup DOMAIN TxnPool' :
              PoolChangedAt(h) =>
                  /\ IsTxn(submitted')
                  /\ submitted'.Height = h
        /\ IsTxn(submitted') =>
              /\ submitted'.Height \in DOMAIN TxnPool'
              /\ TxnPool'[submitted'.Height] = submitted' ]_vars

\* C28 witness: a block the node mined with the pool's transfer for its
\* height is on MyChain and the entry is still in the pool
C28_Witness ==
    \E i \in StoredAt :
        LET b == hashBlock[MyChain[i].Hash]
        IN  /\ b.PublicKey = NodeKey
            /\ b.Height \in DOMAIN TxnPool
            /\ b.Txn = TxnPool[b.Height]
            /\ b.Txn.Amount > 0

\* the Miner's VDF runs for a candidate built on a tip that the store has
\* left
StaleVDF ==
    /\ mining # NotMining
    /\ mining.vdf = "running"
    /\ mining.block.PreHash # tipHash

Settled == \A n \in Nodes : net[n].inbox = <<>>

\* C23: once every gossiped block and every tip probe was processed and no
\* node produces a further block, all nodes have the same tip
C23_SettledNodesAgree ==
    Settled => \A m, n \in Nodes : NetTipHash(net[m]) = NetTipHash(net[n])

\* C27: a block stored under its hash is read back unchanged under that hash
\* in every later state: no step deletes it or stores other content there
C27_BlocksNeverOverwritten ==
    [][ \A h \in DOMAIN hashBlock :
            h \in DOMAIN hashBlock' /\ hashBlock'[h] = hashBlock[h] ]_vars

\* C24: when a gossiped block extends the chain, its transaction changes no
\* balance if the amount is zero, if sender and receiver are the same or if
\* the sender holds less than the amount; otherwise the sender loses the
\* amount, the receiver gains it and no other account changes. In all these
\* cases the block becomes the last entry of the chain.
C24_ApplyOnExtension ==
    [][ (P2PStep /\ outcome' = "extends") =>
            LET b == Head(P2PChan).Block
                tx == b.Txn
                noop == \/ tx.Amount = 0
                        \/ tx.FromAddress = tx.ToAddress
                        \/ accountBalance[tx.FromAddress] < tx.Amount
            IN  /\ MyChain' = Append(MyChain, ChainEntry(b))
                /\ noop => accountBalance' = accountBalance
                /\ ~noop =>
                     \A a \in Addresses :
                        accountBalance'[a] =
                            CASE a = tx.FromAddress ->
                                    accountBalance[a] - tx.Amount
                              [] a = tx.ToAddress ->
                                    accountBalance[a] + tx.Amount
                              [] OTHER -> accountBalance[a] ]_vars

\* a block that pays from an empty account has been accepted on genesis
C24_Witness ==
    /\ outcome = "extends"
    /\ Len(MyChain) = 2
    /\ hashBlock[tipHash].Txn.FromAddress = "X"
    /\ hashBlock[tipHash].Txn.Amount > 0
    /\ accountBalance = InitBank

\* the sum of the balances of the accounts in S
RECURSIVE SumOver(_, _)
SumOver(bal, S) ==
    IF S = {} THEN 0
    ELSE LET a == CHOOSE x \in S : TRUE
         IN  bal[a] + SumOver(bal, S \ {a})

\* the sum of all balances
Total(bal) == SumOver(bal, Addresses)

\* C25: in every balance state the node reaches and for every transaction,
\* DoTxn leaves the sum of all balances as it is, UNDoTxn leaves it as it is,
\* and so does DoTxn followed by UNDoTxn; hence the sum is always the one of
\* the initial balances
C25_SumConserved ==
    /\ Total(accountBalance) = Total(InitBank)
    /\ \A tx \in Transfers :
          /\ Total(DoTxn(accountBalance, tx)) = Total(accountBalance)
          /\ Total(UNDoTxn(accountBalance, tx)) = Total(accountBalance)
          /\ Total(UNDoTxn(DoTxn(accountBalance, tx), tx))
                = Total(accountBalance)

\* C25 witness: a reorganisation has undone a transfer and applied another,
\* and the balances differ from the initial ones
C25_Witness ==
    /\ walk.end = "join"
    /\ \E k \in DOMAIN steps : steps[k].op = "UNDoTxn"
    /\ \E k \in DOMAIN steps : steps[k].op = "DoTxn"
    /\ accountBalance # InitBank
    /\ \E tx \in Transfers : UNDoTxn(accountBalance, tx) # accountBalance

\* C29: MyChain, the balances, the tip and the block store change only in a
\* step of the TipManager, which takes a block from one of its two channels;
\* every step of the Miner (reading the tip, the detector, the VDF, sending
\* the block, ending the iteration) leaves the four as they are
C29_OnlyTipManagerWrites ==
    [][ /\ chainState' # chainState => (P2PStep \/ MinedStep)
        /\ (mining' # mining \/ Len(MiningChan') > Len(MiningChan))
              => UNCHANGED chainState ]_vars

\* C29 witness: the TipManager has put two blocks of the Miner on MyChain and
\* the Miner runs the VDF of its next candidate
C29_Witness ==
    /\ Len(MyChain) = 3
    /\ \A i \in 2..3 : /\ MyChain[i].Hash \in DOMAIN hashBlock
                       /\ hashBlock[MyChain[i].Hash].PublicKey = NodeKey
    /\ mining # NotMining
    /\ mining.vdf = "running"
    /\ mining.block.PreHash = tipHash

\* C30: in a reorganisation the transactions of the blocks that leave MyChain
\* are undone from the old tip downward to the fork point, and all of them
\* before the transaction of any block of the new branch is applied
C30_UndoInReverseOrder ==
    \A k, l \in DOMAIN steps :
        k < l =>
            /\ (steps[k].op = "UNDoTxn" /\ steps[l].op = "UNDoTxn")
                  => steps[l].at < steps[k].at
            /\ steps[k].op = "DoTxn" => steps[l].op # "UNDoTxn"

\* C31: the walk over the ancestors never evaluates MyChain[height-1] with
\* height 0: when a peer returns an ancestor of height 0 that passes
\* VerifyBlock, the walk ends without reading MyChain outside its indices
C31_WalkStaysInsideMyChain ==
    ~(walk # NoWalk /\ walk.end = "panic" /\ 0 \in DOMAIN walk.newchain)

\* C32: whenever processNewBlock has returned, also after an error of the
\* store in the middle of an extension or of a reorganisation, the tip hash
\* in the store is the hash of the last entry of MyChain
C32_StoreTipIsChainTip ==
    ~crashed => tipHash = Tip

\* C33: in every reachable state no account has a negative balance
C33_NoNegativeBalance ==
    \A a \in Addresses : accountBalance[a] >= 0

\* C34: when a gossiped block extends the chain and its transaction lowers
\* the balance of an address, the transaction carries the key whose address
\* is that address; a transaction signed with another key lowers no balance
\* of that address
C34_DebitOnlyByHolder ==
    [][ (P2PStep /\ outcome' = "extends") =>
            \A a \in Addresses :
                accountBalance'[a] < accountBalance[a] =>
                    AddressOf(Head(P2PChan).Block.Txn.PublicKey) = a ]_vars

\* the height of the block with hash h: a block the store holds, or a block
\* of the candidate chain of the step
HeightOfEntry(h, store, candidates) ==
    IF h \in DOMAIN store THEN store[h].Height
    ELSE LET b == CHOOSE c \in candidates : Hash(c) = h IN b.Height

\* the blocks a step of the TipManager may put on MyChain: the block it took
\* from a channel and the ancestors fetched for it
Incoming ==
    {walk'.newchain[j] : j \in DOMAIN walk'.newchain}
      \cup (IF P2PChan # <<>> THEN {Head(P2PChan).Block} ELSE {})
      \cup (IF MiningChan # <<>> THEN {Head(MiningChan)} ELSE {})

\* C35: every step that changes the last entry of MyChain, the canonical
\* tip, by a straight extension or by a reorganisation, moves it to a block
\* that is strictly higher: the height of the tip never decreases and the
\* tip never moves to another block of the same height
C35_TipHeightStrictlyGrows ==
    [][ Tip' # Tip =>
            HeightOfEntry(MyChain'[Len(MyChain')].Hash, hashBlock', Incoming)
              > HeightOfEntry(Tip, hashBlock, {}) ]_vars

\* the blocks of the Miner that the TipManager took from MiningChan and
\* stored
MinedAndStored ==
    {hashBlock[h] : h \in {x \in DOMAIN hashBlock :
                              hashBlock[x].PublicKey = NodeKey}}

\* C36: the blocks the Miner has placed on MiningChan, those that wait there
\* and those the TipManager has taken and stored, have different heights
\* unless they are the same block
C36_OneMinedBlockPerHeight ==
    \A i \in DOMAIN MiningChan :
        \A b \in MinedAndStored \cup {MiningChan[j] : j \in DOMAIN MiningChan} :
            MiningChan[i].Height = b.Height => MiningChan[i] = b

\* a maximum walk depth, as a configuration of the node would set it
MaxWalkDepth == 1

\* C37: the walk of one fork resolution fetches at most MaxWalkDepth
\* ancestors, whatever height the incoming block has; a candidate chain that
\* joins MyChain further down is given up
C37_WalkDepthBounded ==
    walk.fetches <= MaxWalkDepth

\* the balances after the transactions of the first n entries of a chain,
\* from the genesis entry upward, were applied to InitBank
RECURSIVE ChainBalances(_, _, _)
ChainBalances(chain, store, n) ==
    IF n <= 1 THEN InitBank
    ELSE DoTxn(ChainBalances(chain, store, n - 1), store[chain[n].Hash].Txn)

\* C38: after the node was stopped and booted again on its store, the tip
\* hash names the last entry of MyChain, the store holds every block of
\* MyChain, and the balances are those that the transactions of MyChain,
\* from genesis to the tip, make of InitBank
C38_ConsistentAfterBoot ==
    outcome = "booted" =>
        /\ tipHash = Tip
        /\ \A i \in DOMAIN MyChain : MyChain[i].Hash \in DOMAIN hashBlock
        /\ accountBalance = ChainBalances(MyChain, hashBlock, Len(MyChain))

\* the pool holds, for the height above the genesis block, a transaction
\* that does not verify, and the tip is the genesis block
BadTxnForNextHeight ==
    /\ 1 \in DOMAIN TxnPool
    /\ ~TxnVerify(TxnPool[1])
    /\ tipHash = Hash(genesisBlock)

\* C39: when the pool holds a transaction for height 1 that does not verify
\* while the tip is the genesis block, the Miner eventually sends a block of
\* height 1 that passes VerifyBlock, unless the tip has left height 0
C39_BadTxnCannotBlockMiner ==
    BadTxnForNextHeight ~>
        \/ tipHash # Hash(genesisBlock)
        \/ \E i \in DOMAIN MiningChan :
              MiningChan[i].Height = 1 /\ VerifyBlock(MiningChan[i])

====
